---- MODULE Spec2Model ----
(***************************************************************************)
(* Authentication and credential lifecycle of the contacts REST API:       *)
(* the /auth routes (src/routes/auth.py) over the users repository          *)
(* (src/repository/users.py) and the User table (src/entity/models.py).     *)
(* The token codec and the password hasher (auth_service) and the mail      *)
(* tasks (send_email, send_email_password) are modelled from spec.md        *)
(* sections 4.1, 4.2 and 4.4.                                               *)
(***************************************************************************)
EXTENDS Integers, FiniteSets, Sequences, TLC

\* ------------------------------------------------------------------ bounds
MaxTime == 2

\* ----------------------------------------------------------- input domains
\* addresses that sign up, and the addresses requests may name: those plus one
\* that never signs up
Emails == {"a@x.com"}
Addresses == Emails \cup {"nobody@x.com"}
Passwords == {"pw1", "pw2"}
Salts == {"s1"}

\* ------------------------------------------------ token TTLs (clock ticks)
AccessTTL == 1
RefreshTTL == 2
ConfirmTTL == 2
ResetTTL == 2

VARIABLES users, now, issued, last, spent, revoked

\* requests in flight when handlers interleave: each worker's request, its
\* position in the handler and its locals; and the order of the token writes
VARIABLES reqs, writes
VARIABLES contacts, next_id, resp

authVars == <<users, now, issued, last, spent, revoked>>
concVars == <<reqs, writes>>
contactVars == <<contacts, next_id, resp>>

vars == <<authVars, concVars, contactVars>>

\* ------------------------------------------------------- credential hasher
get_password_hash(plaintext, salt) == [pw |-> plaintext, salt |-> salt]

verify_password(plaintext, digest) == digest.pw = plaintext

\* ------------------------------------------------------------- token codec
\* A token string is determined by its claims: the signing key is fixed.
encode(subject, purpose, ttl, t) ==
    [sub |-> subject, scope |-> purpose, iat |-> t, exp |-> t + ttl]

create_access_token(subject, t) == encode(subject, "access_token", AccessTTL, t)

create_refresh_token(subject, t) == encode(subject, "refresh_token", RefreshTTL, t)

create_email_token(subject, ttl, t) == encode(subject, "email_token", ttl, t)

\* the absent refresh token (None) and a string that is no signed token
NoToken == [sub |-> "", scope |-> "none", iat |-> 0, exp |-> 0]
BadToken == [sub |-> "", scope |-> "garbage", iat |-> 0, exp |-> 0]

\* decode succeeds iff the token was signed by this server, carries the
\* expected purpose and is not expired (fails when t >= exp)
decode_ok(token, purpose, signed, t) ==
    /\ token \in signed
    /\ token.scope = purpose
    /\ t < token.exp

\* ------------------------------------------------------------- repository
User(password) == [password |-> password, refresh_token |-> NoToken, confirmed |-> FALSE]

\* faulty variant: signing up logs the new account in
create_user_logged_in(u, email, password) ==
    (email :> [User(password) EXCEPT !.refresh_token = create_refresh_token(email, 0)]) @@ u

create_user(u, email, password) == (email :> User(password)) @@ u

\* faulty variant: the assignment is never committed
update_token_uncommitted(u, email, token) == u

\* faulty variant: a token already stored is not overwritten
update_token_keep(u, email, token) ==
    IF u[email].refresh_token = NoToken THEN [u EXCEPT ![email].refresh_token = token] ELSE u

update_token(u, email, token) == [u EXCEPT ![email].refresh_token = token]

\* faulty variant: a mismatching refresh leaves the stored token in place
revoke_token_skipped(u, email) == u

\* the revocation of a mismatching refresh: update_token(user, None, db)
revoke_token(u, email) == update_token(u, email, NoToken)

repo_confirmed_email(u, email) == [u EXCEPT ![email].confirmed = TRUE]

\* faulty variant: a password change ends the account's sessions
repo_change_password_logout(u, email, password) ==
    [u EXCEPT ![email].password = password, ![email].refresh_token = NoToken]

\* faulty variant: the new password is never committed
repo_change_password_uncommitted(u, email, password) == u

\* faulty variant: the row is rebuilt from its defaults around the new password
repo_change_password_rebuild(u, email, password) == [u EXCEPT ![email] = User(password)]

repo_change_password(u, email, password) == [u EXCEPT ![email].password = password]

\* ---------------------------------------------------------------- responses
\* what the last step returned to its caller: the route, the account the
\* request named or resolved to (and the password of a login form), the HTTP
\* status and detail/message, the token pair of a TokenSchema body and the
\* background task it scheduled
Response(op, email, status, detail) ==
    [op |-> op, email |-> email, password |-> "", status |-> status, detail |-> detail,
     access_token |-> NoToken, refresh_token |-> NoToken, task |-> "none"]

TokenResponse(op, email, at, rt) ==
    [Response(op, email, 200, "bearer") EXCEPT !.access_token = at, !.refresh_token = rt]

LoginResponse(r, password) == [r EXCEPT !.password = password]

TaskResponse(op, email, status, detail, task) ==
    [Response(op, email, status, detail) EXCEPT !.task = task]

\* the background mail task: it mints the token when it runs, right after
\* the response; a failed delivery is swallowed and hands out nothing
send_email(signed, email, t, delivered) ==
    IF delivered THEN signed \cup {create_email_token(email, ConfirmTTL, t)} ELSE signed

send_email_password(signed, email, t, delivered) ==
    IF delivered THEN signed \cup {create_email_token(email, ResetTTL, t)} ELSE signed

\* -------------------------------------------------- handler decision logic
get_user_by_email(u, email) == email \in DOMAIN u

\* faulty variant: the existence check is dropped
signup_check_none(u, email) == "ok"

signup_check(u, email) ==
    IF get_user_by_email(u, email) THEN "Account already exists" ELSE "ok"

\* faulty variant: the confirmed check is dropped
login_check_unconfirmed(u, username, password) ==
    IF ~get_user_by_email(u, username) THEN "No such user"
    ELSE IF ~verify_password(password, u[username].password) THEN "Incorrect credentials"
    ELSE "ok"

login_check(u, username, password) ==
    IF ~get_user_by_email(u, username) THEN "No such user"
    ELSE IF ~u[username].confirmed THEN "Email not confirmed"
    ELSE IF ~verify_password(password, u[username].password) THEN "Incorrect credentials"
    ELSE "ok"

refresh_check(u, token, signed, t) ==
    IF ~decode_ok(token, "refresh_token", signed, t) THEN "Could not validate credentials"
    ELSE IF ~get_user_by_email(u, token.sub) THEN "AttributeError"
    ELSE IF u[token.sub].refresh_token # token THEN "Invalid refresh token"
    ELSE "ok"

\* faulty variant: a confirmation link is single-use
confirmed_email_check_once(u, token, signed, t) ==
    IF ~decode_ok(token, "email_token", signed, t) THEN "Invalid token for email verification"
    ELSE IF ~get_user_by_email(u, token.sub) THEN "Verification error"
    ELSE IF u[token.sub].confirmed THEN "Verification error"
    ELSE "Email confirmed"

confirmed_email_check(u, token, signed, t) ==
    IF ~decode_ok(token, "email_token", signed, t) THEN "Invalid token for email verification"
    ELSE IF ~get_user_by_email(u, token.sub) THEN "Verification error"
    ELSE IF u[token.sub].confirmed THEN "Your email is already confirmed"
    ELSE "Email confirmed"

request_email_check(u, email) ==
    IF ~get_user_by_email(u, email) THEN "AttributeError"
    ELSE IF u[email].confirmed THEN "Your email is already confirmed"
    ELSE "Check your email for confirmation."

\* faulty variant: an unknown address gets the generic acknowledgment
reset_password_check_generic(u, email) == "Check your email for reset password. "

reset_password_check(u, email) ==
    IF ~get_user_by_email(u, email) THEN "Not found user email"
    ELSE "Check your email for reset password. "

\* faulty variant: password-reset links carry a purpose tag of their own
change_password_check_purpose(u, token, password, confirm_password, signed, t) ==
    IF ~decode_ok(token, "reset_token", signed, t) THEN "Invalid token for email verification"
    ELSE IF ~get_user_by_email(u, token.sub) THEN "Password change error"
    ELSE IF password # confirm_password THEN "Different passwords"
    ELSE "Password change done"

\* faulty variant: the two password fields are not compared
change_password_check_nocompare(u, token, password, confirm_password, signed, t) ==
    IF ~decode_ok(token, "email_token", signed, t) THEN "Invalid token for email verification"
    ELSE IF ~get_user_by_email(u, token.sub) THEN "Password change error"
    ELSE "Password change done"

change_password_check(u, token, password, confirm_password, signed, t) ==
    IF ~decode_ok(token, "email_token", signed, t) THEN "Invalid token for email verification"
    ELSE IF ~get_user_by_email(u, token.sub) THEN "Password change error"
    ELSE IF password # confirm_password THEN "Different passwords"
    ELSE "Password change done"

\* bearer validation of a protected request: decode with purpose access,
\* resolve the subject to its account; the account record is not consulted
\* beyond its existence
get_current_user(u, token, signed, t) ==
    IF ~decode_ok(token, "access_token", signed, t) THEN "Could not validate credentials"
    ELSE IF ~get_user_by_email(u, token.sub) THEN "Could not validate credentials"
    ELSE "ok"

\* the tokens a client can present: whatever the server handed out, or junk
Presentable == issued \cup {BadToken}

Procs == {1, 2}

Idle ==
    [op |-> "none", pc |-> "idle", email |-> "", password |-> "", token |-> NoToken,
     access_token |-> NoToken, refresh_token |-> NoToken, status |-> 0, detail |-> ""]

\* no contact stored, no contacts request served yet
NoCall ==
    [op |-> "none", user |-> "", contact_id |-> 0, status |-> 0, result |-> << >>, calls |-> 0]

ContactIdle ==
    /\ contacts = << >>
    /\ next_id = 1
    /\ resp = NoCall

Init ==
    /\ ContactIdle
    /\ reqs = [p \in Procs |-> Idle]
    /\ writes = << >>
    /\ users = << >>
    /\ now = 0
    /\ issued = {}
    /\ last = Response("init", "", 0, "")
    /\ spent = {}
    /\ revoked = {}

\* the clock advances
Tick ==
    /\ now < MaxTime
    /\ now' = now + 1
    /\ last' = Response("tick", "", 0, "")
    /\ UNCHANGED <<users, issued, spent, revoked>>

\* POST /auth/signup
signup(email, password, salt, delivered) ==
    LET chk == signup_check(users, email)
    IN  /\ IF chk # "ok"
           THEN /\ last' = Response("signup", email, 409, chk)
                /\ UNCHANGED <<users, issued>>
           ELSE IF email \in DOMAIN users
           THEN /\ last' = Response("signup", email, 500, "IntegrityError")
                /\ UNCHANGED <<users, issued>>
           ELSE /\ users' = create_user(users, email, get_password_hash(password, salt))
                /\ issued' = send_email(issued, email, now, delivered)
                /\ last' = TaskResponse("signup", email, 201, "created", "send_email")
        /\ UNCHANGED <<now, spent, revoked>>

\* POST /auth/login
login(username, password) ==
    LET chk == login_check(users, username, password)
        access_token == create_access_token(username, now)
        refresh_token == create_refresh_token(username, now)
    IN  /\ IF chk # "ok"
           THEN /\ last' = LoginResponse(Response("login", username, 401, chk), password)
                /\ UNCHANGED <<users, issued, revoked>>
           ELSE /\ users' = update_token(users, username, refresh_token)
                /\ issued' = issued \cup {access_token, refresh_token}
                /\ revoked' = revoked \ {username}
                /\ last' = LoginResponse(TokenResponse("login", username, access_token,
                                                       refresh_token), password)
        /\ UNCHANGED <<now, spent>>

\* GET /auth/refresh_token
refresh_token(token) ==
    LET chk == refresh_check(users, token, issued, now)
        email == token.sub
        access_token == create_access_token(email, now)
        new_refresh_token == create_refresh_token(email, now)
    IN  /\ CASE chk = "ok" ->
                /\ users' = update_token(users, email, new_refresh_token)
                /\ issued' = issued \cup {access_token, new_refresh_token}
                /\ spent' = spent \cup {token}
                /\ last' = TokenResponse("refresh_token", email, access_token, new_refresh_token)
                /\ UNCHANGED revoked
             [] chk = "Invalid refresh token" ->
                /\ users' = revoke_token(users, email)
                /\ revoked' = revoked \cup {email}
                /\ last' = Response("refresh_token", email, 401, chk)
                /\ UNCHANGED <<issued, spent>>
             [] chk = "AttributeError" ->
                /\ last' = Response("refresh_token", email, 500, chk)
                /\ UNCHANGED <<users, issued, spent, revoked>>
             [] OTHER ->
                /\ last' = Response("refresh_token", "", 401, chk)
                /\ UNCHANGED <<users, issued, spent, revoked>>
        /\ UNCHANGED now

\* GET /auth/confirmed_email/{token}
confirmed_email(token) ==
    LET chk == confirmed_email_check(users, token, issued, now)
    IN  /\ CASE chk = "Email confirmed" ->
                /\ users' = repo_confirmed_email(users, token.sub)
                /\ last' = Response("confirmed_email", token.sub, 200, chk)
             [] chk = "Your email is already confirmed" ->
                /\ last' = Response("confirmed_email", token.sub, 200, chk)
                /\ UNCHANGED users
             [] chk = "Verification error" ->
                /\ last' = Response("confirmed_email", token.sub, 400, chk)
                /\ UNCHANGED users
             [] OTHER ->
                /\ last' = Response("confirmed_email", "", 401, chk)
                /\ UNCHANGED users
        /\ UNCHANGED <<now, issued, spent, revoked>>

\* POST /auth/request_email
request_email(email, delivered) ==
    LET chk == request_email_check(users, email)
    IN  /\ CASE chk = "AttributeError" ->
                /\ last' = Response("request_email", email, 500, chk)
                /\ UNCHANGED issued
             [] chk = "Your email is already confirmed" ->
                /\ last' = Response("request_email", email, 200, chk)
                /\ UNCHANGED issued
             [] OTHER ->
                /\ issued' = send_email(issued, email, now, delivered)
                /\ last' = TaskResponse("request_email", email, 200, chk, "send_email")
        /\ UNCHANGED <<users, now, spent, revoked>>

\* POST /auth/reset_password
reset_password(email, delivered) ==
    LET chk == reset_password_check(users, email)
    IN  /\ IF chk = "Not found user email"
           THEN /\ last' = Response("reset_password", email, 400, chk)
                /\ UNCHANGED issued
           ELSE /\ issued' = send_email_password(issued, email, now, delivered)
                /\ last' = TaskResponse("reset_password", email, 200, chk, "send_email_password")
        /\ UNCHANGED <<users, now, spent, revoked>>

\* GET /auth/change_password/{token}
change_password(token, password, confirm_password, salt) ==
    LET chk == change_password_check(users, token, password, confirm_password, issued, now)
    IN  /\ CASE chk = "Password change done" ->
                /\ users' = repo_change_password(users, token.sub,
                                                 get_password_hash(password, salt))
                /\ last' = Response("change_password", token.sub, 200, chk)
             [] chk = "Different passwords" ->
                /\ last' = Response("change_password", token.sub, 200, chk)
                /\ UNCHANGED users
             [] chk = "Password change error" ->
                /\ last' = Response("change_password", token.sub, 400, chk)
                /\ UNCHANGED users
             [] OTHER ->
                /\ last' = Response("change_password", "", 401, chk)
                /\ UNCHANGED users
        /\ UNCHANGED <<now, issued, spent, revoked>>

\* faulty variant: the bearer is refused once the account holds no refresh token
get_contacts_stored(token) ==
    LET chk == get_current_user(users, token, issued, now)
    IN  /\ last' = IF chk = "ok" /\ users[token.sub].refresh_token # NoToken
                   THEN Response("get_contacts", token.sub, 200, "contacts")
                   ELSE Response("get_contacts", "", 401, "Could not validate credentials")
        /\ UNCHANGED <<users, now, issued, spent, revoked>>

\* GET /contacts/ : a protected request, user = Depends(get_current_user)
get_contacts(token) ==
    LET chk == get_current_user(users, token, issued, now)
    IN  /\ last' = IF chk = "ok"
                   THEN Response("get_contacts", token.sub, 200, "contacts")
                   ELSE Response("get_contacts", "", 401, chk)
        /\ UNCHANGED <<users, now, issued, spent, revoked>>

\* one request at a time: every handler runs to completion
Next ==
    \/ Tick /\ UNCHANGED <<concVars, contactVars>>
    \/ \E e \in Emails, p \in Passwords, s \in Salts, d \in BOOLEAN :
          signup(e, p, s, d) /\ UNCHANGED <<concVars, contactVars>>
    \/ \E e \in Addresses, p \in Passwords : login(e, p) /\ UNCHANGED <<concVars, contactVars>>
    \/ \E t \in Presentable : refresh_token(t) /\ UNCHANGED <<concVars, contactVars>>
    \/ \E t \in Presentable : confirmed_email(t) /\ UNCHANGED <<concVars, contactVars>>
    \/ \E e \in Addresses, d \in BOOLEAN : request_email(e, d) /\ UNCHANGED <<concVars, contactVars>>
    \/ \E e \in Addresses, d \in BOOLEAN : reset_password(e, d) /\ UNCHANGED <<concVars, contactVars>>
    \/ \E t \in Presentable, p \in Passwords, c \in Passwords, s \in Salts :
          change_password(t, p, c, s) /\ UNCHANGED <<concVars, contactVars>>
    \/ \E t \in Presentable : get_contacts(t) /\ UNCHANGED <<concVars, contactVars>>

Spec == Init /\ [][Next]_vars

\* ------------------------------------------------- interleaved handlers
\* Two workers serve requests whose database reads and commits interleave.
\* A handler is cut at its awaits on the database: the read of the row
\* (with the checks made on what was read), the minting of the token pair,
\* and the commit.

\* a confirmed account that logged in at time 0, one tick ago
ConcAccount ==
    "a@x.com" :> [password |-> get_password_hash("pw1", "s1"),
                  refresh_token |-> create_refresh_token("a@x.com", 0),
                  confirmed |-> TRUE]

ConcInit ==
    /\ ContactIdle
    /\ reqs = [p \in Procs |-> Idle]
    /\ writes = << >>
    /\ \/ users = << >> /\ issued = {}
       \/ /\ users = ConcAccount
          /\ issued = {create_access_token("a@x.com", 0), create_refresh_token("a@x.com", 0)}
    /\ now = 1
    /\ last = Response("init", "", 0, "")
    /\ spent = {}
    /\ revoked = {}

Done(r, status, detail) == [r EXCEPT !.pc = "done", !.status = status, !.detail = detail]

\* a request arrives at an idle worker
conc_start(p, op, email, password, token) ==
    /\ reqs[p].pc = "idle"
    /\ reqs' = [reqs EXCEPT ![p] = [Idle EXCEPT !.op = op, !.pc = "read", !.email = email,
                                                !.password = password, !.token = token]]
    /\ UNCHANGED <<authVars, writes>>

\* signup: exist_user = await get_user_by_email(...)
conc_signup_read(p) ==
    /\ reqs[p].pc = "read" /\ reqs[p].op = "signup"
    /\ LET chk == signup_check(users, reqs[p].email)
       IN  reqs' = [reqs EXCEPT ![p] = IF chk # "ok" THEN Done(@, 409, chk)
                                       ELSE [@ EXCEPT !.pc = "insert"]]
    /\ UNCHANGED <<authVars, writes>>

\* signup: await create_user(...); users.email is unique
conc_signup_insert(p, salt, delivered) ==
    /\ reqs[p].pc = "insert"
    /\ IF reqs[p].email \in DOMAIN users
       THEN /\ reqs' = [reqs EXCEPT ![p] = Done(@, 500, "IntegrityError")]
            /\ UNCHANGED <<users, issued>>
       ELSE /\ users' = create_user(users, reqs[p].email,
                                    get_password_hash(reqs[p].password, salt))
            /\ issued' = send_email(issued, reqs[p].email, now, delivered)
            /\ reqs' = [reqs EXCEPT ![p] = Done(@, 201, "created")]
    /\ UNCHANGED <<now, last, spent, revoked, writes>>

\* login: user = await get_user_by_email(...) and the three checks
conc_login_read(p) ==
    /\ reqs[p].pc = "read" /\ reqs[p].op = "login"
    /\ LET chk == login_check(users, reqs[p].email, reqs[p].password)
       IN  reqs' = [reqs EXCEPT ![p] = IF chk # "ok" THEN Done(@, 401, chk)
                                       ELSE [@ EXCEPT !.pc = "mint"]]
    /\ UNCHANGED <<authVars, writes>>

\* refresh: decode, user = await get_user_by_email(...), the comparison
conc_refresh_read(p) ==
    /\ reqs[p].pc = "read" /\ reqs[p].op = "refresh_token"
    /\ LET chk == refresh_check(users, reqs[p].token, issued, now)
       IN  reqs' = [reqs EXCEPT ![p] =
                      CASE chk = "ok" -> [@ EXCEPT !.pc = "mint", !.email = reqs[p].token.sub]
                        [] chk = "Invalid refresh token" ->
                             [@ EXCEPT !.pc = "revoke", !.email = reqs[p].token.sub]
                        [] chk = "AttributeError" -> Done(@, 500, chk)
                        [] OTHER -> Done(@, 401, chk)]
    /\ UNCHANGED <<authVars, writes>>

\* refresh: await update_token(user, None, db), then 401
conc_refresh_revoke(p) ==
    /\ reqs[p].pc = "revoke"
    /\ users' = revoke_token(users, reqs[p].email)
    /\ writes' = Append(writes, p)
    /\ reqs' = [reqs EXCEPT ![p] = Done(@, 401, "Invalid refresh token")]
    /\ UNCHANGED <<now, issued, last, spent, revoked>>

\* login and refresh: create_access_token, create_refresh_token
conc_mint(p) ==
    /\ reqs[p].pc = "mint"
    /\ reqs' = [reqs EXCEPT ![p] = [@ EXCEPT !.pc = "write",
                   !.access_token = create_access_token(reqs[p].email, now),
                   !.refresh_token = create_refresh_token(reqs[p].email, now)]]
    /\ UNCHANGED <<authVars, writes>>

\* login and refresh: await update_token(user, refresh_token, db), then 200
conc_write(p) ==
    /\ reqs[p].pc = "write"
    /\ users' = update_token(users, reqs[p].email, reqs[p].refresh_token)
    /\ issued' = issued \cup {reqs[p].access_token, reqs[p].refresh_token}
    /\ writes' = Append(writes, p)
    /\ reqs' = [reqs EXCEPT ![p] = Done(@, 200, "bearer")]
    /\ UNCHANGED <<now, last, spent, revoked>>

ConcNext ==
    \/ Tick /\ UNCHANGED <<concVars, contactVars>>
    \/ \E p \in Procs, e \in Emails, pw \in Passwords :
          conc_start(p, "signup", e, pw, NoToken) /\ UNCHANGED contactVars
    \/ \E p \in Procs, e \in Addresses, pw \in Passwords :
          conc_start(p, "login", e, pw, NoToken) /\ UNCHANGED contactVars
    \/ \E p \in Procs, t \in Presentable : conc_start(p, "refresh_token", "", "", t) /\ UNCHANGED contactVars
    \/ \E p \in Procs : conc_signup_read(p) /\ UNCHANGED contactVars
    \/ \E p \in Procs, s \in Salts, d \in BOOLEAN : conc_signup_insert(p, s, d) /\ UNCHANGED contactVars
    \/ \E p \in Procs : conc_login_read(p) /\ UNCHANGED contactVars
    \/ \E p \in Procs : conc_refresh_read(p) /\ UNCHANGED contactVars
    \/ \E p \in Procs : conc_refresh_revoke(p) /\ UNCHANGED contactVars
    \/ \E p \in Procs : conc_mint(p) /\ UNCHANGED contactVars
    \/ \E p \in Procs : conc_write(p) /\ UNCHANGED contactVars

ConcSpec == ConcInit /\ [][ConcNext]_vars

\* ------------------------------------------------------------- contacts
\* The contacts routes behind the user-agent middleware. The bearer of a
\* request is taken as resolved: user is the account get_current_user
\* returned. Rows are identified by their id; a query without ORDER BY
\* returns them in id order.

\* ids are handed out up to this bound
MaxContacts == 2

Owners == {"a@x.com", "b@x.com"}

\* an absent or empty query parameter
NoQuery == ""

\* a contact_id no row carries (None)
NoContact == 0

Date(m, d) == [month |-> m, day |-> d]

Today(y, m, d) == [year |-> y, month |-> m, day |-> d]

\* the request bodies clients send (ContactSchema)
Bodies ==
    {[first_name |-> "Ann", last_name |-> "Lee", email |-> "ann@x.com",
      phone_number |-> "+380000000001", birthday |-> Date(1, 2), extra_data |-> ""],
     [first_name |-> "Lee", last_name |-> "Ann", email |-> "lee@x.com",
      phone_number |-> "+380000000002", birthday |-> Date(2, 29), extra_data |-> ""],
     [first_name |-> "Bob", last_name |-> "Lee", email |-> "Bob@x.com",
      phone_number |-> "+380000000003", birthday |-> Date(6, 15), extra_data |-> ""]}

Queries == {NoQuery, "ANN"}

\* the days on which the birthdays route is called
Todays == {Today(2023, 12, 28), Today(2024, 2, 25), Today(2023, 6, 15)}

\* limit: int = Query(10, ge=10, ...), offset: int = Query(0, ge=0)
MinLimit == 10
Limits == {1, MinLimit}
Offsets == {0, 1}

\* the window of the upcoming birthdays
UpcomingDays == 7

\* request headers: none, or a user-agent
UserAgent(s) == "user-agent" :> s
Headers ==
    {<< >>, UserAgent("Mozilla/5.0"), UserAgent("Googlebot/2.1"),
     UserAgent("Python-urllib/3.9"), UserAgent("googlebot")}

user_agent_ban_list == <<"Googlebot", "Python-urllib">>

\* re.search of a pattern without metacharacters: it occurs somewhere
Contains(s, pat) ==
    \E i \in 1..(Len(s) - Len(pat) + 1) : SubSeq(s, i, i + Len(pat) - 1) = pat

UpperCase == "ABCDEFGHIJKLMNOPQRSTUVWXYZ"
LowerCase == "abcdefghijklmnopqrstuvwxyz"

\* the lower-case letter of every upper-case letter
LowerOf ==
    [c \in {SubSeq(UpperCase, i, i) : i \in 1..Len(UpperCase)} |->
        LET i == CHOOSE k \in 1..Len(UpperCase) : SubSeq(UpperCase, k, k) = c
        IN  SubSeq(LowerCase, i, i)]

lower_char(c) == IF c \in DOMAIN LowerOf THEN LowerOf[c] ELSE c

RECURSIVE lower(_)
lower(s) == IF Len(s) = 0 THEN "" ELSE lower_char(SubSeq(s, 1, 1)) \o lower(SubSeq(s, 2, Len(s)))

\* column.ilike("%q%"): q occurs in the value, letter case ignored
ilike(value, q) == Contains(lower(value), lower(q))

\* the middleware's decision: re.search(pattern, None) raises TypeError
user_agent_ban_check(headers) ==
    IF "user-agent" \notin DOMAIN headers THEN "TypeError"
    ELSE IF \E i \in 1..Len(user_agent_ban_list) :
               Contains(headers["user-agent"], user_agent_ban_list[i])
    THEN "You are banned"
    ELSE "call_next"

\* ---- the calendar of datetime.date
IsLeap(y) == (y % 4 = 0 /\ y % 100 # 0) \/ y % 400 = 0

DaysInMonth(m, y) ==
    CASE m = 2 -> IF IsLeap(y) THEN 29 ELSE 28
      [] m \in {4, 6, 9, 11} -> 30
      [] OTHER -> 31

DaysInYear(y) == IF IsLeap(y) THEN 366 ELSE 365

RECURSIVE DaysBefore(_, _)
DaysBefore(m, y) == IF m = 1 THEN 0 ELSE DaysBefore(m - 1, y) + DaysInMonth(m - 1, y)

\* the day of the year of month/day in year y
Ordinal(m, d, y) == DaysBefore(m, y) + d

\* date.replace(year=y) raises ValueError when the day does not exist in y
replace_ok(birthday, y) == birthday.day <= DaysInMonth(birthday.month, y)

\* the days until the next birthday, or the ValueError of date.replace
days_to_birthday(birthday, today) ==
    LET t == Ordinal(today.month, today.day, today.year)
    IN  IF ~replace_ok(birthday, today.year) THEN [raised |-> TRUE, days |-> 0]
        ELSE IF t <= Ordinal(birthday.month, birthday.day, today.year)
        THEN [raised |-> FALSE,
              days |-> Ordinal(birthday.month, birthday.day, today.year) - t]
        ELSE IF ~replace_ok(birthday, today.year + 1) THEN [raised |-> TRUE, days |-> 0]
        ELSE [raised |-> FALSE,
              days |-> DaysInYear(today.year) - t
                       + Ordinal(birthday.month, birthday.day, today.year + 1)]

\* ---- the repository
RECURSIVE by_id(_)
by_id(S) ==
    IF S = {} THEN << >>
    ELSE LET m == CHOOSE x \in S : \A y \in S : x <= y
         IN  <<m>> \o by_id(S \ {m})

\* .offset(offset).limit(limit)
Window(rows, offset, limit) ==
    SubSeq(rows, offset + 1, IF offset + limit < Len(rows) THEN offset + limit ELSE Len(rows))

\* select(Contact).filter_by(user=user)
filter_by_user(c, user) == by_id({i \in DOMAIN c : c[i].user = user})

Row(body, user) == [body EXCEPT !.extra_data = body.extra_data] @@ [user |-> user]

\* the unique indexes on contacts.email and contacts.phone_number
unique_ok(c, body, self) ==
    \A i \in DOMAIN c \ {self} :
        c[i].email # body.email /\ c[i].phone_number # body.phone_number

repo_get_contacts(c, limit, offset, user) == Window(filter_by_user(c, user), offset, limit)

\* faulty variant: the row is looked up by id alone
repo_get_contact_any(c, contact_id, user) ==
    IF contact_id \in DOMAIN c THEN contact_id ELSE NoContact

\* select(Contact).filter_by(id=contact_id, user=user), scalar_one_or_none
repo_get_contact(c, contact_id, user) ==
    IF contact_id \in DOMAIN c /\ c[contact_id].user = user THEN contact_id ELSE NoContact

repo_create_contact(c, id, body, user) == (id :> Row(body, user)) @@ c

repo_update_contact(c, contact_id, body) ==
    [c EXCEPT ![contact_id] = Row(body, c[contact_id].user)]

repo_delete_contact(c, contact_id) == [i \in DOMAIN c \ {contact_id} |-> c[i]]

\* the statement search_contacts ends up with: each supplied criterion
\* replaces the statement built before it
search_stmt(first_name, last_name, email) ==
    IF email # NoQuery THEN "email"
    ELSE IF last_name # NoQuery THEN "last_name"
    ELSE IF first_name # NoQuery THEN "first_name"
    ELSE "None"

repo_search_contacts(c, first_name, last_name, email, user) ==
    LET stmt == search_stmt(first_name, last_name, email)
    IN  by_id({i \in DOMAIN c :
                 /\ c[i].user = user
                 /\ CASE stmt = "email" -> ilike(c[i].email, email)
                      [] stmt = "last_name" -> ilike(c[i].last_name, last_name)
                      [] OTHER -> ilike(c[i].first_name, first_name)})

\* the rows get_upcoming_birthdays looks at, and those it keeps
birthdays_window(c, limit, offset, user) == Window(filter_by_user(c, user), offset, limit)

birthdays_raise(c, limit, offset, user, today) ==
    \E k \in 1..Len(birthdays_window(c, limit, offset, user)) :
        days_to_birthday(c[birthdays_window(c, limit, offset, user)[k]].birthday, today).raised

repo_get_upcoming_birthdays(c, limit, offset, user, today) ==
    SelectSeq(birthdays_window(c, limit, offset, user),
              LAMBDA i : days_to_birthday(c[i].birthday, today).days <= UpcomingDays)

\* ---- the routes
Call(op, user, contact_id, status, result) ==
    [op |-> op, user |-> user, contact_id |-> contact_id, status |-> status,
     result |-> result, calls |-> 1]

\* the middleware around every request: a banned user agent gets 403 and a
\* missing one raises before call_next; call_next is the routed handler
user_agent_ban_middleware(headers, op, call_next) ==
    LET verdict == user_agent_ban_check(headers)
    IN  CASE verdict = "call_next" -> call_next
          [] verdict = "You are banned" ->
                /\ resp' = [NoCall EXCEPT !.op = op, !.status = 403]
                /\ UNCHANGED <<contacts, next_id>>
          [] OTHER ->
                /\ resp' = [NoCall EXCEPT !.op = op, !.status = 500]
                /\ UNCHANGED <<contacts, next_id>>

\* GET /contacts/
route_get_contacts(headers, limit, offset, user) ==
    user_agent_ban_middleware(headers, "get_contacts",
        /\ resp' = IF limit < MinLimit
                   THEN Call("get_contacts", user, NoContact, 422, << >>)
                   ELSE Call("get_contacts", user, NoContact, 200,
                             repo_get_contacts(contacts, limit, offset, user))
        /\ UNCHANGED <<contacts, next_id>>)

\* GET /contacts/{contact_id}
route_get_contact(headers, contact_id, user) ==
    user_agent_ban_middleware(headers, "get_contact",
        LET contact == repo_get_contact(contacts, contact_id, user)
        IN  /\ resp' = IF contact = NoContact
                       THEN Call("get_contact", user, contact_id, 404, << >>)
                       ELSE Call("get_contact", user, contact_id, 200, <<contact>>)
            /\ UNCHANGED <<contacts, next_id>>)

\* POST /contacts/
route_create_contact(headers, body, user) ==
    user_agent_ban_middleware(headers, "create_contact",
        IF unique_ok(contacts, body, NoContact)
        THEN /\ next_id <= MaxContacts
             /\ contacts' = repo_create_contact(contacts, next_id, body, user)
             /\ next_id' = next_id + 1
             /\ resp' = Call("create_contact", user, next_id, 201, <<next_id>>)
        ELSE /\ resp' = Call("create_contact", user, NoContact, 500, << >>)
             /\ UNCHANGED <<contacts, next_id>>)

\* PUT /contacts/{contact_id}
route_update_contact(headers, body, contact_id, user) ==
    user_agent_ban_middleware(headers, "update_contact",
        LET contact == repo_get_contact(contacts, contact_id, user)
        IN  /\ CASE contact = NoContact ->
                    /\ resp' = Call("update_contact", user, contact_id, 404, << >>)
                    /\ UNCHANGED contacts
                 [] contact # NoContact /\ ~unique_ok(contacts, body, contact) ->
                    /\ resp' = Call("update_contact", user, contact_id, 500, << >>)
                    /\ UNCHANGED contacts
                 [] OTHER ->
                    /\ contacts' = repo_update_contact(contacts, contact, body)
                    /\ resp' = Call("update_contact", user, contact_id, 200, <<contact>>)
            /\ UNCHANGED next_id)

\* DELETE /contacts/{contact_id}
route_delete_contact(headers, contact_id, user) ==
    user_agent_ban_middleware(headers, "delete_contact",
        LET contact == repo_get_contact(contacts, contact_id, user)
        IN  /\ IF contact = NoContact
               THEN /\ resp' = Call("delete_contact", user, contact_id, 204, << >>)
                    /\ UNCHANGED contacts
               ELSE /\ contacts' = repo_delete_contact(contacts, contact)
                    /\ resp' = Call("delete_contact", user, contact_id, 200, <<contact>>)
            /\ UNCHANGED next_id)

\* GET /contacts/search/ : db.execute(None) raises when no criterion is given
route_search_contacts(headers, first_name, last_name, email, user) ==
    user_agent_ban_middleware(headers, "search_contacts",
        /\ resp' = IF search_stmt(first_name, last_name, email) = "None"
                   THEN Call("search_contacts", user, NoContact, 500, << >>)
                   ELSE Call("search_contacts", user, NoContact, 200,
                             repo_search_contacts(contacts, first_name, last_name, email, user))
        /\ UNCHANGED <<contacts, next_id>>)

\* GET /contacts/birthdays/
route_get_upcoming_birthdays(headers, limit, offset, user, today) ==
    user_agent_ban_middleware(headers, "get_upcoming_birthdays",
        /\ resp' = IF limit < MinLimit
                   THEN Call("get_upcoming_birthdays", user, NoContact, 422, << >>)
                   ELSE IF birthdays_raise(contacts, limit, offset, user, today)
                   THEN Call("get_upcoming_birthdays", user, NoContact, 500, << >>)
                   ELSE Call("get_upcoming_birthdays", user, NoContact, 200,
                             repo_get_upcoming_birthdays(contacts, limit, offset, user, today))
        /\ UNCHANGED <<contacts, next_id>>)

ContactIds == 1..MaxContacts

ContactInit ==
    /\ ContactIdle
    /\ reqs = [p \in Procs |-> Idle]
    /\ writes = << >>
    /\ users = << >>
    /\ now = 0
    /\ issued = {}
    /\ last = Response("init", "", 0, "")
    /\ spent = {}
    /\ revoked = {}

\* a request with the given headers
Request(headers) ==
    \/ \E l \in Limits, o \in Offsets, u \in Owners : route_get_contacts(headers, l, o, u)
    \/ \E i \in ContactIds, u \in Owners : route_get_contact(headers, i, u)
    \/ \E b \in Bodies, u \in Owners : route_create_contact(headers, b, u)
    \/ \E b \in Bodies, i \in ContactIds, u \in Owners : route_update_contact(headers, b, i, u)
    \/ \E i \in ContactIds, u \in Owners : route_delete_contact(headers, i, u)
    \/ \E f \in Queries, l \in Queries, e \in Queries, u \in Owners :
          route_search_contacts(headers, f, l, e, u)
    \/ \E l \in Limits, o \in Offsets, u \in Owners, t \in Todays :
          route_get_upcoming_birthdays(headers, l, o, u, t)

ContactNext ==
    \/ \E h \in Headers, l \in Limits, o \in Offsets, u \in Owners :
          route_get_contacts(h, l, o, u) /\ UNCHANGED <<authVars, concVars>>
    \/ \E h \in Headers, i \in ContactIds, u \in Owners :
          route_get_contact(h, i, u) /\ UNCHANGED <<authVars, concVars>>
    \/ \E h \in Headers, b \in Bodies, u \in Owners :
          route_create_contact(h, b, u) /\ UNCHANGED <<authVars, concVars>>
    \/ \E h \in Headers, b \in Bodies, i \in ContactIds, u \in Owners :
          route_update_contact(h, b, i, u) /\ UNCHANGED <<authVars, concVars>>
    \/ \E h \in Headers, i \in ContactIds, u \in Owners :
          route_delete_contact(h, i, u) /\ UNCHANGED <<authVars, concVars>>
    \/ \E h \in Headers, f \in Queries, l \in Queries, e \in Queries, u \in Owners :
          route_search_contacts(h, f, l, e, u) /\ UNCHANGED <<authVars, concVars>>
    \/ \E h \in Headers, l \in Limits, o \in Offsets, u \in Owners, t \in Todays :
          route_get_upcoming_birthdays(h, l, o, u, t) /\ UNCHANGED <<authVars, concVars>>

ContactSpec == ContactInit /\ [][ContactNext]_vars

\* ------------------------------------------------------------------ claims
Registered(e) == e \in DOMAIN users

\* C1: once refresh(rt1) has succeeded, every later refresh(rt1) is refused:
\* no refresh token that was exchanged is accepted again.
C1_SpentTokenRefused ==
    \A t \in spent : refresh_check(users, t, issued, now) # "ok"

\* C2 (as stated): a refresh presenting a validly signed refresh token that
\* differs from the stored one clears the stored token and fails with 401.
C2_SignedMismatchRevokes ==
    [][\A t \in Presentable :
         (/\ last'.op = "refresh_token"
          /\ t \in issued /\ t.scope = "refresh_token"
          /\ Registered(t.sub) /\ users[t.sub].refresh_token # t
          /\ refresh_token(t))
         => (users'[t.sub].refresh_token = NoToken /\ last'.status = 401)]_vars

\* C2 (amended): a refresh presenting a validly signed, unexpired refresh
\* token that differs from the stored one clears the stored token and fails
\* with 401; from then until the next successful login every refresh for
\* that account fails, whatever token it presents.
C2_ValidMismatchRevokes ==
    /\ [][\A t \in Presentable :
            (/\ last'.op = "refresh_token"
             /\ decode_ok(t, "refresh_token", issued, now)
             /\ Registered(t.sub) /\ users[t.sub].refresh_token # t
             /\ refresh_token(t))
            => (/\ users'[t.sub].refresh_token = NoToken
                /\ last'.status = 401
                /\ t.sub \in revoked')]_vars
    /\ [](\A e \in revoked :
            /\ users[e].refresh_token = NoToken
            /\ \A t \in Presentable :
                 t.sub = e => refresh_check(users, t, issued, now) # "ok")

C2_Witness ==
    /\ last.op = "refresh_token"
    /\ last.detail = "Invalid refresh token"
    /\ last.email \in revoked
    /\ \E t \in issued : t.sub = last.email /\ decode_ok(t, "refresh_token", issued, now)

\* C3: a login for an unconfirmed account fails with 401 whatever the
\* password, returns no tokens, hands none out and leaves the account as it was.
C3_UnconfirmedLoginFails ==
    [][\A e \in Addresses, p \in Passwords :
         (last'.op = "login" /\ Registered(e) /\ ~users[e].confirmed /\ login(e, p))
         => (/\ last'.status = 401
             /\ last'.access_token = NoToken /\ last'.refresh_token = NoToken
             /\ issued' = issued
             /\ users' = users)]_vars

C3_Witness ==
    /\ last.op = "login"
    /\ last.detail = "Email not confirmed"
    /\ verify_password(last.password, users[last.email].password)

\* C4: login returns 200 exactly when the account exists, is confirmed and
\* the password verifies; then the stored refresh token is the returned one
\* and a refresh presenting it right away is accepted.
C4_LoginSucceedsAndPersists ==
    [][\A e \in Addresses, p \in Passwords :
         (last'.op = "login" /\ login(e, p))
         => (/\ (last'.status = 200) <=>
                  (/\ Registered(e)
                   /\ users[e].confirmed
                   /\ verify_password(p, users[e].password))
             /\ last'.status # 200 => last'.status = 401
             /\ last'.status = 200 =>
                  (/\ users'[e].refresh_token = last'.refresh_token
                   /\ last'.refresh_token # NoToken
                   /\ refresh_check(users', last'.refresh_token, issued', now') = "ok"))]_vars

C4_Witness ==
    /\ last.op = "login"
    /\ last.status = 200
    /\ users[last.email].refresh_token = last.refresh_token

\* C5: an account is created unconfirmed, and no step takes a confirmed
\* account back to unconfirmed (or removes it).
C5_ConfirmedMonotonic ==
    [][\A e \in Emails :
         /\ (~Registered(e) /\ e \in DOMAIN users') => ~users'[e].confirmed
         /\ (Registered(e) /\ users[e].confirmed)
              => (e \in DOMAIN users' /\ users'[e].confirmed)]_vars

C5_Witness ==
    /\ last.op = "change_password"
    /\ last.detail = "Password change done"
    /\ users[last.email].confirmed

\* C6: confirming with a valid token of an existing account always answers
\* 200 and leaves the account confirmed, so that a second call with the same
\* token is answered "already confirmed"; a call on a confirmed account
\* changes nothing.
C6_ConfirmIdempotent ==
    [][\A t \in Presentable :
         (/\ last'.op = "confirmed_email"
          /\ decode_ok(t, "email_token", issued, now)
          /\ Registered(t.sub)
          /\ confirmed_email(t))
         => (/\ last'.status = 200
             /\ users'[t.sub].confirmed
             /\ confirmed_email_check(users', t, issued', now')
                  = "Your email is already confirmed"
             /\ users[t.sub].confirmed =>
                  (/\ last'.detail = "Your email is already confirmed"
                   /\ users' = users))]_vars

C6_Witness ==
    /\ last.op = "confirmed_email"
    /\ last.status = 200
    /\ last.detail = "Your email is already confirmed"

\* C7: signup with a registered email answers 409 and changes nothing;
\* signup with an unregistered email answers 201 and adds exactly that
\* account, unconfirmed.
C7_SignupConflict ==
    [][\A e \in Emails, p \in Passwords, s \in Salts, d \in BOOLEAN :
         (last'.op = "signup" /\ signup(e, p, s, d))
         => IF Registered(e)
            THEN /\ last'.status = 409
                 /\ users' = users
                 /\ issued' = issued
            ELSE /\ last'.status = 201
                 /\ DOMAIN users' = DOMAIN users \cup {e}
                 /\ ~users'[e].confirmed
                 /\ verify_password(p, users'[e].password)
                 /\ \A o \in DOMAIN users : users'[o] = users[o]]_vars

C7_Witness ==
    /\ last.op = "signup"
    /\ last.status = 409
    /\ Registered(last.email)

\* C8: change_password with a valid token and two different passwords
\* answers "Different passwords" and leaves every account as it was.
C8_MismatchChangesNothing ==
    [][\A t \in Presentable, p \in Passwords, c \in Passwords, s \in Salts :
         (/\ last'.op = "change_password"
          /\ p # c
          /\ decode_ok(t, "email_token", issued, now)
          /\ Registered(t.sub)
          /\ change_password(t, p, c, s))
         => (/\ last'.status = 200
             /\ last'.detail = "Different passwords"
             /\ users' = users)]_vars

C8_Witness ==
    /\ last.op = "change_password"
    /\ last.detail = "Different passwords"
    /\ Registered(last.email)

\* C9 (as stated): reset_password answers with the generic acknowledgment
\* whether or not the address is registered.
C9_AlwaysGeneric ==
    last.op = "reset_password"
    => (last.status = 200 /\ last.detail = "Check your email for reset password. ")

\* C9 (amended): reset_password answers with the generic acknowledgment and
\* schedules the reset mail for every registered address, confirmed or not,
\* and fails with 400 "Not found user email" for an unregistered one.
C9_GenericOnlyIfRegistered ==
    [][\A e \in Addresses, d \in BOOLEAN :
         (last'.op = "reset_password" /\ reset_password(e, d))
         => IF Registered(e)
            THEN /\ last'.status = 200
                 /\ last'.detail = "Check your email for reset password. "
                 /\ last'.task = "send_email_password"
            ELSE /\ last'.status = 400
                 /\ last'.detail = "Not found user email"
                 /\ last'.task = "none"
                 /\ issued' = issued]_vars

C9_Witness ==
    /\ last.op = "reset_password"
    /\ last.status = 400
    /\ ~Registered(last.email)

\* C10: request_email has no error outcome: it answers 200 for every
\* address (already-confirmed message for a confirmed account, the generic
\* message otherwise) and schedules a mail only for an existing unconfirmed
\* account.
C10_RequestEmailNeverFails ==
    last.op = "request_email"
    => /\ last.status = 200
       /\ IF Registered(last.email) /\ users[last.email].confirmed
          THEN last.detail = "Your email is already confirmed" /\ last.task = "none"
          ELSE /\ last.detail = "Check your email for confirmation."
               /\ (last.task = "send_email") <=> Registered(last.email)

\* both workers ran the given route to completion
BothDone(op) == \A p \in Procs : reqs[p].op = op /\ reqs[p].pc = "done"

\* C11: two interleaved logins for the same confirmed account with the right
\* password both return 200, whatever the interleaving; once both are done
\* the stored refresh token is the one of the login that committed last, and
\* a returned token that refresh still accepts is that token.
C11_ConcurrentLoginsLastWriteWins ==
    (/\ BothDone("login")
     /\ reqs[1].email = reqs[2].email
     /\ Registered(reqs[1].email)
     /\ users[reqs[1].email].confirmed
     /\ \A p \in Procs : verify_password(reqs[p].password, users[reqs[1].email].password))
    => (/\ \A p \in Procs : reqs[p].status = 200
        /\ Len(writes) = 2
        /\ users[reqs[1].email].refresh_token = reqs[writes[2]].refresh_token
        /\ now < reqs[writes[2]].refresh_token.exp
             => refresh_check(users, reqs[writes[2]].refresh_token, issued, now) = "ok"
        /\ \A p \in Procs :
             refresh_check(users, reqs[p].refresh_token, issued, now) = "ok"
             => reqs[p].refresh_token = reqs[writes[2]].refresh_token)

C11_Witness ==
    /\ BothDone("login")
    /\ \A p \in Procs : reqs[p].status = 200
    /\ Len(writes) = 2
    /\ reqs[writes[1]].refresh_token # reqs[writes[2]].refresh_token
    /\ reqs[writes[2]].refresh_token.iat < reqs[writes[1]].refresh_token.iat
    /\ users["a@x.com"].refresh_token = reqs[writes[2]].refresh_token

\* C17: a refresh token is single-use also under concurrency: of two
\* interleaved refresh requests that present the same token, at most one
\* succeeds and returns a new token pair.
C17_AtMostOneRefreshSucceeds ==
    (/\ BothDone("refresh_token")
     /\ reqs[1].token = reqs[2].token)
    => ~(\A p \in Procs : reqs[p].status = 200)

\* C18: of two interleaved signups for the same unregistered email, exactly
\* one creates the account and returns 201 and the other fails with 409.
C18_LoserGetsConflict ==
    (/\ BothDone("signup")
     /\ reqs[1].email = reqs[2].email
     /\ \E p \in Procs : reqs[p].status = 201)
    => \E p, q \in Procs : p # q /\ reqs[p].status = 201 /\ reqs[q].status = 409


\* C12: bearer validation makes no check against the account record: an
\* unexpired access token the server issued resolves to its account on a
\* protected request, whatever refresh token the account holds by then
\* (overwritten by a later login or refresh, or cleared by a revocation).
C12_AccessTokenOutlivesRevocation ==
    [][\A t \in Presentable :
         (/\ last'.op = "get_contacts"
          /\ t.scope = "access_token"
          /\ now < t.exp
          /\ Registered(t.sub)
          /\ get_contacts(t))
         => (last'.status = 200 /\ last'.email = t.sub)]_vars

\* a protected request was served for an account whose refresh token a
\* mismatching refresh had cleared
C12_Witness ==
    /\ last.op = "get_contacts"
    /\ last.status = 200
    /\ last.email \in revoked
    /\ users[last.email].refresh_token = NoToken


\* C19: confirmation and password-reset tokens share one purpose tag and are
\* interchangeable: the token of the confirmation mail sent at signup passes
\* change_password, the token of the reset mail passes confirmed_email, and
\* every unexpired mail token of a registered account, presented to either
\* route, has that route's effect (password changed, confirmed set).
C19_EmailTokensInterchangeable ==
    [][/\ (/\ last'.op = "signup"
           /\ last'.task = "send_email"
           /\ create_email_token(last'.email, ConfirmTTL, now) \in issued')
          => \A p \in Passwords :
                change_password_check(users', create_email_token(last'.email, ConfirmTTL, now),
                                      p, p, issued', now') = "Password change done"
       /\ (/\ last'.task = "send_email_password"
           /\ create_email_token(last'.email, ResetTTL, now) \in issued')
          => confirmed_email_check(users', create_email_token(last'.email, ResetTTL, now),
                                   issued', now')
               \in {"Email confirmed", "Your email is already confirmed"}
       /\ \A t \in Presentable :
            (/\ last'.op = "confirmed_email"
             /\ t.scope = "email_token" /\ now < t.exp /\ Registered(t.sub)
             /\ confirmed_email(t))
            => (last'.status = 200 /\ users'[t.sub].confirmed)
       /\ \A t \in Presentable, p \in Passwords, s \in Salts :
            (/\ last'.op = "change_password"
             /\ t.scope = "email_token" /\ now < t.exp /\ Registered(t.sub)
             /\ change_password(t, p, p, s))
            => (/\ last'.detail = "Password change done"
                /\ users'[t.sub].password = get_password_hash(p, s))]_vars

\* a mail token changed the password of an account that never used it to
\* confirm its address
C19_Witness ==
    /\ last.op = "change_password"
    /\ last.detail = "Password change done"
    /\ ~users[last.email].confirmed


\* a step that changed the password of account e
PasswordChanged(e) ==
    /\ last'.op = "change_password"
    /\ last'.detail = "Password change done"
    /\ last'.email = e

\* C20: after change_password changed the password of a confirmed account to
\* p, login with p succeeds and login with any other password, the previous
\* one included, fails with 401, until the next password change: the change
\* makes p the one accepted password, no other step touches the stored
\* password or the confirmed flag, and login answers by the stored password.
C20_NewPasswordOnly ==
    [][/\ \A t \in Presentable, p \in Passwords, s \in Salts :
            (/\ last'.op = "change_password"
             /\ last'.detail = "Password change done"
             /\ Registered(t.sub)
             /\ users[t.sub].confirmed
             /\ change_password(t, p, p, s))
            => \A q \in Passwords :
                  login_check(users', t.sub, q)
                    = IF q = p THEN "ok" ELSE "Incorrect credentials"
       /\ \A e \in DOMAIN users :
            ~PasswordChanged(e)
            => (/\ users'[e].password = users[e].password
                /\ users[e].confirmed => users'[e].confirmed)
       /\ \A e \in Addresses, q \in Passwords :
            (last'.op = "login" /\ last'.email = e /\ last'.password = q /\ login(e, q))
            => last'.status = (IF login_check(users, e, q) = "ok" THEN 200 ELSE 401)]_vars

\* the password of a confirmed account was just changed: the new one logs
\* in, the other one does not
C20_Witness ==
    /\ last.op = "change_password"
    /\ last.detail = "Password change done"
    /\ users[last.email].confirmed
    /\ \E p, q \in Passwords :
         /\ login_check(users, last.email, p) = "ok"
         /\ login_check(users, last.email, q) = "Incorrect credentials"


\* C13: contact isolation: every contact belongs to exactly one account and
\* keeps it; a request of user u returns only contacts of u and leaves the
\* contacts of every other user as they were; get_contact, update_contact
\* and delete_contact for an id owned by another user find nothing.
C13_ContactIsolation ==
    [][/\ \A i \in DOMAIN contacts' : contacts'[i].user \in Owners
       /\ \A i \in DOMAIN contacts :
            /\ i \in DOMAIN contacts' => contacts'[i].user = contacts[i].user
            /\ contacts[i].user # resp'.user
               => (i \in DOMAIN contacts' /\ contacts'[i] = contacts[i])
       /\ \A k \in 1..Len(resp'.result) :
            LET i == resp'.result[k]
            IN  IF i \in DOMAIN contacts' THEN contacts'[i].user = resp'.user
                ELSE i \in DOMAIN contacts /\ contacts[i].user = resp'.user
       /\ (/\ resp'.op \in {"get_contact", "update_contact", "delete_contact"}
           /\ resp'.calls = 1
           /\ resp'.contact_id \in DOMAIN contacts
           /\ contacts[resp'.contact_id].user # resp'.user)
          => (resp'.result = << >> /\ resp'.status \in {404, 204})]_vars

\* a user asked for a contact of another user and was told it does not exist
C13_Witness ==
    /\ resp.op = "get_contact"
    /\ resp.status = 404
    /\ resp.contact_id \in DOMAIN contacts
    /\ contacts[resp.contact_id].user # resp.user

\* C14: search_contacts returns the user's contacts that match the given
\* criteria: with several criteria every returned contact matches all of
\* them (substring, letter case ignored), and with none it still returns a
\* list without raising.
C14_SearchMatchesAllCriteria ==
    [][\A h \in Headers, f \in Queries, l \in Queries, e \in Queries, u \in Owners :
         (/\ resp'.op = "search_contacts"
          /\ resp'.calls = 1
          /\ route_search_contacts(h, f, l, e, u))
         => (/\ resp'.status = 200
             /\ \A k \in 1..Len(resp'.result) :
                  LET c == contacts[resp'.result[k]]
                  IN  /\ c.user = u
                      /\ f # NoQuery => ilike(c.first_name, f)
                      /\ l # NoQuery => ilike(c.last_name, l)
                      /\ e # NoQuery => ilike(c.email, e))]_vars

\* the user's contacts whose next birthday is at most UpcomingDays away
Upcoming(c, user, today) ==
    SelectSeq(filter_by_user(c, user),
              LAMBDA i : /\ ~days_to_birthday(c[i].birthday, today).raised
                         /\ days_to_birthday(c[i].birthday, today).days \in 0..UpcomingDays)

\* C15: get_upcoming_birthdays returns the user's contacts whose next
\* birthday is within the next 7 days, at most limit of them after skipping
\* offset of them.
C15_UpcomingBirthdaysPaged ==
    [][\A h \in Headers, l \in Limits, o \in Offsets, u \in Owners, t \in Todays :
         (/\ resp'.op = "get_upcoming_birthdays"
          /\ resp'.calls = 1
          /\ l >= MinLimit
          /\ route_get_upcoming_birthdays(h, l, o, u, t))
         => (/\ resp'.status = 200
             /\ resp'.result = Window(Upcoming(contacts, u, t), o, l))]_vars

\* the user-agent of the request matches a pattern of the ban list
Banned(headers) ==
    /\ "user-agent" \in DOMAIN headers
    /\ \E i \in 1..Len(user_agent_ban_list) :
         Contains(headers["user-agent"], user_agent_ban_list[i])

\* C16: a request whose user-agent matches the ban list is answered 403 and
\* the downstream handler is never invoked; every other request, one without
\* a user-agent header included, reaches the downstream handler exactly once.
C16_BanOrCallNextOnce ==
    [][\A h \in Headers :
         Request(h) => IF Banned(h) THEN resp'.status = 403 /\ resp'.calls = 0
                       ELSE resp'.calls = 1]_vars


\* C21: a successful change_password modifies only the stored password hash:
\* the confirmed flag and the stored refresh token of the account stay as
\* they were, every other account is untouched, and refresh answers every
\* token as it did before the change, so a refresh token issued before the
\* password change is still accepted afterwards.
C21_ChangePasswordFrame ==
    [][\A e \in DOMAIN users :
         PasswordChanged(e)
         => (/\ DOMAIN users' = DOMAIN users
             /\ users'[e].confirmed = users[e].confirmed
             /\ users'[e].refresh_token = users[e].refresh_token
             /\ \A o \in DOMAIN users \ {e} : users'[o] = users[o]
             /\ \A t \in Presentable :
                  refresh_check(users', t, issued', now')
                    = refresh_check(users, t, issued, now))]_vars

\* the password of an account was just changed while it held a refresh
\* token, and refresh accepts that token
C21_Witness ==
    /\ last.op = "change_password"
    /\ last.detail = "Password change done"
    /\ users[last.email].refresh_token # NoToken
    /\ refresh_check(users, users[last.email].refresh_token, issued, now) = "ok"


\* C22: in every reachable state an account that holds a refresh token is
\* confirmed and the token was minted as a refresh token for that account's
\* own email; an unconfirmed account holds none.
C22_StoredTokenOwnedAndConfirmed ==
    \A e \in DOMAIN users :
        users[e].refresh_token # NoToken
        => (/\ users[e].confirmed
            /\ users[e].refresh_token.sub = e
            /\ users[e].refresh_token.scope = "refresh_token"
            /\ users[e].refresh_token \in issued)

\* a refresh matched the stored value and wrote the new token on the account
C22_Witness ==
    /\ last.op = "refresh_token"
    /\ last.status = 200
    /\ users[last.email].refresh_token = last.refresh_token
    /\ users[last.email].refresh_token # NoToken

====
